---- MODULE Spec2Model ----
(***************************************************************************)
(* Model of data_types/src/schema.rs: the IOx Schema wrapper around an     *)
(* Arrow schema (ordered fields plus a string metadata map), its validated *)
(* construction, try_merge and sort_fields_by_name.                        *)
(*                                                                         *)
(* Option<T> is a sequence of length at most one: None is << >> and        *)
(* Some(x) is <<x>>.  Result<T> is a record [ok, value, err] whose value   *)
(* and err are options.  Sequences are 1-based, so the column at Rust      *)
(* index i is fields[i + 1].                                               *)
(***************************************************************************)
EXTENDS Integers, Sequences, FiniteSets, TLC

VARIABLES
    schema,   \* Option<Schema>: the Schema value the caller currently owns
    op,       \* the call whose result is pending, or "none"
    receiver, \* Option<Schema>: self of the pending call
    argument, \* Option<Schema>: other of the pending try_merge
    input,    \* Option<..>: raw input of the pending constructor call
    result,   \* outcome of the pending call
    iters,    \* the SchemaIter values borrowed from the owned Schema
    arc       \* the Arc allocation behind a handle that has been cloned

vars == <<schema, op, receiver, argument, input, result, iters, arc>>

-----------------------------------------------------------------------------
(* Bounds and input alphabets *)

MaxCols == 2

\* SchemaIter values alive at a time, and calls of next() past the end
MaxIters == 2
MaxExtraNext == 2

\* Clones of one handle
MaxClones == 2

ColumnNames == {"a", "b"}
MeasurementNames == {"m1", "m2"}

None == << >>
Some(x) == <<x>>

Min(S) == CHOOSE i \in S : \A j \in S : i <= j

EmptyMap == [k \in {} |-> ""]

-----------------------------------------------------------------------------
(* Column type model *)

MEASUREMENT_METADATA_KEY == "iox::measurement::name"

InfluxFieldType == {"Float", "Integer", "UInteger", "String", "Boolean"}

Tag == <<"Tag">>
Timestamp == <<"Timestamp">>
Field(t) == <<"Field", t>>

InfluxColumnType == {Tag, Timestamp} \cup {Field(t) : t \in InfluxFieldType}

ArrowDataType ==
    {"Float64", "Int64", "UInt64", "Utf8", "Boolean", "Float32"}

\* The mapping with unsigned integers stored as Int64
FieldTypeToArrow_signed(t) ==
    CASE t = "Float" -> "Float64"
      [] t = "Integer" -> "Int64"
      [] t = "UInteger" -> "Int64"
      [] t = "String" -> "Utf8"
      [] t = "Boolean" -> "Boolean"

\* impl From<InfluxFieldType> for ArrowDataType
FieldTypeToArrow(t) ==
    CASE t = "Float" -> "Float64"
      [] t = "Integer" -> "Int64"
      [] t = "UInteger" -> "UInt64"
      [] t = "String" -> "Utf8"
      [] t = "Boolean" -> "Boolean"

\* impl From<&InfluxColumnType> for ArrowDataType
ColumnTypeToArrow(t) ==
    CASE t = Tag -> "Utf8"
      [] t = Timestamp -> "Int64"
      [] OTHER -> FieldTypeToArrow(t[2])

valid_arrow_type(t, data_type) ==
    LET default_type == ColumnTypeToArrow(t)
    IN  data_type = default_type

\* An encoder that writes string fields with the token of integer fields
to_string_string_as_integer(t) ==
    CASE t = Tag -> "iox::column_type::tag"
      [] t = Field("Float") -> "iox::column_type::field::float"
      [] t = Field("Integer") -> "iox::column_type::field::integer"
      [] t = Field("UInteger") -> "iox::column_type::field::uinteger"
      [] t = Field("String") -> "iox::column_type::field::integer"
      [] t = Field("Boolean") -> "iox::column_type::field::boolean"
      [] t = Timestamp -> "iox::column_type::timestamp"

\* impl From<&InfluxColumnType> for &'static str
to_string(t) ==
    CASE t = Tag -> "iox::column_type::tag"
      [] t = Field("Float") -> "iox::column_type::field::float"
      [] t = Field("Integer") -> "iox::column_type::field::integer"
      [] t = Field("UInteger") -> "iox::column_type::field::uinteger"
      [] t = Field("String") -> "iox::column_type::field::string"
      [] t = Field("Boolean") -> "iox::column_type::field::boolean"
      [] t = Timestamp -> "iox::column_type::timestamp"

\* A decoder that takes every value it does not know for the tag token
try_from_str_unknown_is_tag(s) ==
    CASE s = "iox::column_type::field::float" -> Some(Field("Float"))
      [] s = "iox::column_type::field::integer" -> Some(Field("Integer"))
      [] s = "iox::column_type::field::uinteger" -> Some(Field("UInteger"))
      [] s = "iox::column_type::field::string" -> Some(Field("String"))
      [] s = "iox::column_type::field::boolean" -> Some(Field("Boolean"))
      [] s = "iox::column_type::timestamp" -> Some(Timestamp)
      [] OTHER -> Some(Tag)

\* impl TryFrom<&str> for InfluxColumnType, followed by .ok()
try_from_str(s) ==
    CASE s = "iox::column_type::tag" -> Some(Tag)
      [] s = "iox::column_type::field::float" -> Some(Field("Float"))
      [] s = "iox::column_type::field::integer" -> Some(Field("Integer"))
      [] s = "iox::column_type::field::uinteger" -> Some(Field("UInteger"))
      [] s = "iox::column_type::field::string" -> Some(Field("String"))
      [] s = "iox::column_type::field::boolean" -> Some(Field("Boolean"))
      [] s = "iox::column_type::timestamp" -> Some(Timestamp)
      [] OTHER -> None

-----------------------------------------------------------------------------
(* Results and errors *)

Ok(v, built) == [ok |-> TRUE, value |-> Some(v), err |-> None, rebuilt |-> built]
Err(e) == [ok |-> FALSE, value |-> None, err |-> Some(e), rebuilt |-> FALSE]
NoResult == [ok |-> FALSE, value |-> None, err |-> None, rebuilt |-> FALSE]

ErrorRecord(kind, name, existing, new) ==
    [kind |-> kind, name |-> name, existing |-> existing, new |-> new]

DuplicateColumnName(column_name) ==
    ErrorRecord("DuplicateColumnName", column_name, None, None)

IncompatibleMetadata(column_name, influxdb_column_type, actual_type) ==
    ErrorRecord("IncompatibleMetadata", column_name,
                Some(influxdb_column_type), Some(actual_type))

BothFieldAndTag(column_name) ==
    ErrorRecord("BothFieldAndTag", column_name, None, None)

InvalidTimestamp(column_name, existing_type) ==
    ErrorRecord("InvalidTimestamp", column_name, Some(existing_type), None)

-----------------------------------------------------------------------------
(* Schema: read operations *)

ArrowField(name, data_type, nullable) ==
    [name |-> name, data_type |-> data_type, nullable |-> nullable]

ArrowSchema(fields, metadata) == [fields |-> fields, metadata |-> metadata]

MetadataGet(metadata, key) ==
    IF key \in DOMAIN metadata THEN Some(metadata[key]) ELSE None

len(s) == Len(s.inner.fields)

\* Schema::field: <<Option<InfluxColumnType>, ArrowField>> of column idx
field(s, idx) ==
    LET f == s.inner.fields[idx]
        entry == MetadataGet(s.inner.metadata, f.name)
        influxdb_column_type ==
            IF entry = None THEN None ELSE try_from_str(entry[1])
    IN  <<influxdb_column_type, f>>

\* Schema::find_index_of: the first position holding the name
find_index_of(s, name) ==
    LET hits == {i \in 1..len(s) : s.inner.fields[i].name = name}
    IN  IF hits = {} THEN None ELSE Some(Min(hits))

measurement(s) == MetadataGet(s.inner.metadata, MEASUREMENT_METADATA_KEY)

\* impl From<Schema> for ArrowSchemaRef: the handle the schema wraps
into_arrow(s) == s.inner

-----------------------------------------------------------------------------
(* Schema::try_from_arrow *)

\* try_from_arrow reporting the last repeated name instead of the first
try_from_arrow_last_repeat(inner) ==
    LET fields == inner.fields
        dups == {i \in 1..Len(fields) :
                    \E j \in 1..(i - 1) : fields[j].name = fields[i].name}
        s == [inner |-> inner]
        bad == {i \in 1..Len(fields) :
                    LET col == field(s, i)
                    IN  /\ col[1] # None
                        /\ ~valid_arrow_type(col[1][1], col[2].data_type)}
    IN  IF dups # {}
        THEN Err(DuplicateColumnName(
                 fields[CHOOSE i \in dups : \A j \in dups : j <= i].name))
        ELSE IF bad # {}
        THEN LET col == field(s, Min(bad))
             IN  Err(IncompatibleMetadata(col[2].name, col[1][1], col[2].data_type))
        ELSE Ok(s, FALSE)

\* try_from_arrow without the duplicate-name loop
try_from_arrow_no_name_check(inner) ==
    LET s == [inner |-> inner]
        bad == {i \in 1..Len(inner.fields) :
                    LET col == field(s, i)
                    IN  /\ col[1] # None
                        /\ ~valid_arrow_type(col[1][1], col[2].data_type)}
    IN  IF bad # {}
        THEN LET col == field(s, Min(bad))
             IN  Err(IncompatibleMetadata(col[2].name, col[1][1], col[2].data_type))
        ELSE Ok(s, FALSE)

try_from_arrow(inner) ==
    LET fields == inner.fields
        dups == {i \in 1..Len(fields) :
                    \E j \in 1..(i - 1) : fields[j].name = fields[i].name}
        s == [inner |-> inner]
        bad == {i \in 1..Len(fields) :
                    LET col == field(s, i)
                    IN  /\ col[1] # None
                        /\ ~valid_arrow_type(col[1][1], col[2].data_type)}
    IN  IF dups # {}
        THEN Err(DuplicateColumnName(fields[Min(dups)].name))
        ELSE IF bad # {}
        THEN LET col == field(s, Min(bad))
             IN  Err(IncompatibleMetadata(col[2].name, col[1][1], col[2].data_type))
        ELSE Ok(s, FALSE)

-----------------------------------------------------------------------------
(* Schema::new_from_parts *)

\* The metadata map after the tag, field and timestamp loops
PartsMetadata(measurement_name, tag_cols, field_cols, time_col) ==
    LET tags == [n \in tag_cols |-> to_string(Tag)]
        flds == [n \in DOMAIN field_cols |-> to_string(field_cols[n])]
        time == [n \in {time_col[i] : i \in DOMAIN time_col} |-> to_string(Timestamp)]
        meas == [k \in {MEASUREMENT_METADATA_KEY : i \in DOMAIN measurement_name}
                    |-> measurement_name[1]]
    IN  meas @@ time @@ flds @@ tags

\* new_from_parts looking at the timestamp column before the field columns
new_from_parts_time_first(measurement_name, fields, tag_cols, field_cols, time_col) ==
    LET both == tag_cols \cap DOMAIN field_cols
        metadata == [n \in tag_cols |-> to_string(Tag)] @@
                    [n \in DOMAIN field_cols |-> to_string(field_cols[n])]
    IN  IF time_col # None /\ time_col[1] \in DOMAIN metadata
        THEN {Err(InvalidTimestamp(time_col[1],
                                   try_from_str(metadata[time_col[1]])[1]))}
        ELSE IF both # {}
        THEN {Err(BothFieldAndTag(column_name)) : column_name \in both}
        ELSE {try_from_arrow(ArrowSchema(fields,
                  PartsMetadata(measurement_name, tag_cols, field_cols, time_col)))}

\* The set of outcomes: field_cols is a HashMap, so which of several names
\* that are both tag and field is met first is not determined.  The role
\* InvalidTimestamp reports is decoded from the entry written for the name.
new_from_parts(measurement_name, fields, tag_cols, field_cols, time_col) ==
    LET both == tag_cols \cap DOMAIN field_cols
        metadata == [n \in DOMAIN field_cols |-> to_string(field_cols[n])] @@
                    [n \in tag_cols |-> to_string(Tag)]
    IN  IF both # {}
        THEN {Err(BothFieldAndTag(column_name)) : column_name \in both}
        ELSE IF time_col # None /\ time_col[1] \in DOMAIN metadata
        THEN {Err(InvalidTimestamp(time_col[1],
                                   try_from_str(metadata[time_col[1]])[1]))}
        ELSE {try_from_arrow(ArrowSchema(fields,
                  PartsMetadata(measurement_name, tag_cols, field_cols, time_col)))}

-----------------------------------------------------------------------------
(* The Arrow collaborator: ArrowSchema::try_merge over [self, other] *)

\* Field::try_merge folded over the fields of one input schema: a field whose
\* name is already present must have the same data type and makes the merged
\* field nullable if it is nullable; any other field is appended.
RECURSIVE ArrowMergeFields(_, _)
ArrowMergeFields(merged, fields) ==
    IF fields = << >> THEN [ok |-> TRUE, fields |-> merged]
    ELSE LET f == Head(fields)
             same == {i \in 1..Len(merged) : merged[i].name = f.name}
         IN  IF \E i \in same : merged[i].data_type # f.data_type
             THEN [ok |-> FALSE, fields |-> << >>]
             ELSE LET next ==
                          IF same = {} THEN Append(merged, f)
                          ELSE [i \in 1..Len(merged) |->
                                   IF i \in same
                                   THEN [merged[i] EXCEPT !.nullable = @ \/ f.nullable]
                                   ELSE merged[i]]
                  IN  ArrowMergeFields(next, Tail(fields))

\* Metadata of one input schema merged into the map built so far: a key
\* already present with a different value is a conflict.
ArrowMergeMetadata(merged, metadata) ==
    IF \E k \in DOMAIN merged \cap DOMAIN metadata : merged[k] # metadata[k]
    THEN [ok |-> FALSE, metadata |-> EmptyMap]
    ELSE [ok |-> TRUE, metadata |-> merged @@ metadata]

ArrowSchema_try_merge(first, second) ==
    LET m1 == ArrowMergeMetadata(EmptyMap, first.metadata)
        f1 == ArrowMergeFields(<< >>, first.fields)
        m2 == ArrowMergeMetadata(m1.metadata, second.metadata)
        f2 == ArrowMergeFields(f1.fields, second.fields)
    IN  IF m1.ok /\ f1.ok /\ m2.ok /\ f2.ok
        THEN [ok |-> TRUE, value |-> Some(ArrowSchema(f2.fields, m2.metadata))]
        ELSE [ok |-> FALSE, value |-> None]

-----------------------------------------------------------------------------
(* Schema::try_merge *)

TryMergeDifferentMeasurementNames(existing_measurement, new_measurement) ==
    ErrorRecord("TryMergeDifferentMeasurementNames", MEASUREMENT_METADATA_KEY,
                Some(existing_measurement), Some(new_measurement))

TryMergeBadColumnType(field_name, existing_influx_column_type, influx_column_type) ==
    ErrorRecord("TryMergeBadColumnType", field_name,
                Some(existing_influx_column_type), Some(influx_column_type))

TryMergeBadArrowType(field_name, existing_data_type, new_data_type) ==
    ErrorRecord("TryMergeBadArrowType", field_name,
                Some(existing_data_type), Some(new_data_type))

TryMergeBadNullability(field_name, existing_nullability, new_nullability) ==
    ErrorRecord("TryMergeBadNullability", field_name,
                Some(existing_nullability), Some(new_nullability))

MergingSchemas == ErrorRecord("MergingSchemas", "", None, None)

\* {:?} of an Option<InfluxColumnType>
DebugColumnType(t) ==
    CASE t = None -> "None"
      [] t = Some(Tag) -> "Some(Tag)"
      [] t = Some(Timestamp) -> "Some(Timestamp)"
      [] t = Some(Field("Float")) -> "Some(Field(Float))"
      [] t = Some(Field("Integer")) -> "Some(Field(Integer))"
      [] t = Some(Field("UInteger")) -> "Some(Field(UInteger))"
      [] t = Some(Field("String")) -> "Some(Field(String))"
      [] t = Some(Field("Boolean")) -> "Some(Field(Boolean))"

\* {:?} of an ArrowDataType: the name of the variant
DebugDataType(t) ==
    CASE t = "Utf8" -> "Utf8"
      [] t = "Int64" -> "Int64"
      [] t = "UInt64" -> "UInt64"
      [] t = "Float64" -> "Float64"
      [] t = "Float32" -> "Float32"
      [] t = "Boolean" -> "Boolean"

nullable_to_str(nullability) ==
    IF nullability THEN "can be null" ELSE "can not be null"

\* The display strings of the three column errors of try_merge, as the
\* pieces of the message in their order: the format arguments are the
\* second, fourth and sixth piece.
Display(e) ==
    CASE e.kind = "TryMergeBadColumnType" ->
            <<"Schema Merge Error: Incompatible column type for '", e.name,
              "'. Existing type ", DebugColumnType(e.new[1]),
              ", new type ", DebugColumnType(e.existing[1])>>
      [] e.kind = "TryMergeBadArrowType" ->
            <<"Schema Merge Error: Incompatible data type for '", e.name,
              "'. Existing type ", DebugDataType(e.existing[1]),
              ", new type ", DebugDataType(e.new[1])>>
      [] e.kind = "TryMergeBadNullability" ->
            <<"Schema Merge Error: Incompatible nullability for '", e.name,
              "'. Existing field ", nullable_to_str(e.existing[1]),
              ", new field ", nullable_to_str(e.new[1])>>

\* The measurement pre-check with the two names exchanged
MeasurementCheck_swapped(self, other) ==
    LET existing_measurement == measurement(self)
        new_measurement == measurement(other)
    IN  IF /\ existing_measurement # None
           /\ new_measurement # None
           /\ existing_measurement # new_measurement
        THEN Some(TryMergeDifferentMeasurementNames(new_measurement[1],
                                                    existing_measurement[1]))
        ELSE None

\* The measurement pre-check: Some(error) when both sides name a measurement
\* and the names differ.
MeasurementCheck(self, other) ==
    LET existing_measurement == measurement(self)
        new_measurement == measurement(other)
    IN  IF /\ existing_measurement # None
           /\ new_measurement # None
           /\ existing_measurement # new_measurement
        THEN Some(TryMergeDifferentMeasurementNames(existing_measurement[1],
                                                    new_measurement[1]))
        ELSE None

\* The closure with the data types compared before the roles
ColumnCheck_type_first(self, other, idx) ==
    LET col == field(other, idx)
        existing == field(self, find_index_of(self, col[2].name)[1])
    IN  IF col[2].data_type # existing[2].data_type
        THEN Some(TryMergeBadArrowType(col[2].name, existing[2].data_type,
                                       col[2].data_type))
        ELSE IF existing[1] # col[1]
        THEN Some(TryMergeBadColumnType(col[2].name, existing[1], col[1]))
        ELSE IF col[2].nullable # existing[2].nullable
        THEN Some(TryMergeBadNullability(col[2].name, existing[2].nullable,
                                         col[2].nullable))
        ELSE None

\* The try_for_each closure on column idx of other, which self also has.
ColumnCheck(self, other, idx) ==
    LET col == field(other, idx)
        influx_column_type == col[1]
        new_field == col[2]
        existing == field(self, find_index_of(self, new_field.name)[1])
        existing_influx_column_type == existing[1]
        existing_field == existing[2]
        field_name == new_field.name
    IN  IF existing_influx_column_type # influx_column_type
        THEN Some(TryMergeBadColumnType(field_name, existing_influx_column_type,
                                        influx_column_type))
        ELSE IF new_field.data_type # existing_field.data_type
        THEN Some(TryMergeBadArrowType(field_name, existing_field.data_type,
                                       new_field.data_type))
        ELSE IF new_field.nullable # existing_field.nullable
        THEN Some(TryMergeBadNullability(field_name, existing_field.nullable,
                                         new_field.nullable))
        ELSE None

\* Columns of other that pass the filter_map: those self has by name.
SharedColumns(self, other) ==
    {i \in 1..len(other) : find_index_of(self, other.inner.fields[i].name) # None}

\* need_merge without the measurement comparison
need_merge_columns_only(self, other) ==
    \E i \in 1..len(other) : i \notin SharedColumns(self, other)

\* The need_merge flag once every column of other has been visited.
need_merge(self, other) ==
    \/ measurement(self) # measurement(other)
    \/ \E i \in 1..len(other) : i \notin SharedColumns(self, other)

unwrap_to_inner_owned(self) == self.inner

try_merge(self, other) ==
    LET mcheck == MeasurementCheck(self, other)
        failing == {i \in SharedColumns(self, other) :
                       ColumnCheck(self, other, i) # None}
    IN  IF mcheck # None THEN Err(mcheck[1])
        ELSE IF failing # {} THEN Err(ColumnCheck(self, other, Min(failing))[1])
        ELSE IF need_merge(self, other)
        THEN LET new_schema ==
                     ArrowSchema_try_merge(unwrap_to_inner_owned(self),
                                           unwrap_to_inner_owned(other))
             IN  IF new_schema.ok
                 THEN Ok([inner |-> new_schema.value[1]], TRUE)
                 ELSE Err(MergingSchemas)
        ELSE Ok(self, FALSE)

-----------------------------------------------------------------------------
(* Schema::sort_fields_by_name *)

\* String::cmp on the column names of the alphabet
NameRank(name) == CASE name = "a" -> 1 [] name = "b" -> 2

NameLess(x, y) == NameRank(x) < NameRank(y)

\* A sort_by whose comparison takes its two names in the other order
SortedFields_descending(fields) ==
    LET n == Len(fields)
        before(j, i) ==
            \/ NameLess(fields[i].name, fields[j].name)
            \/ (~NameLess(fields[j].name, fields[i].name) /\ j < i)
        pos(i) == 1 + Cardinality({j \in 1..n : before(j, i)})
    IN  [k \in 1..n |-> LET i == CHOOSE i \in 1..n : pos(i) = k
                        IN  <<i, fields[i]>>]

\* sorted_fields after the stable sort_by: pairs <<orig_index, field>>
SortedFields(fields) ==
    LET n == Len(fields)
        before(j, i) ==
            \/ NameLess(fields[j].name, fields[i].name)
            \/ (~NameLess(fields[i].name, fields[j].name) /\ j < i)
        pos(i) == 1 + Cardinality({j \in 1..n : before(j, i)})
    IN  [k \in 1..n |-> LET i == CHOOSE i \in 1..n : pos(i) = k
                        IN  <<i, fields[i]>>]

\* An index check that compares the position counted from one with the
\* original position counted from zero
is_sorted_off_by_one(self) ==
    LET sorted_fields == SortedFields(self.inner.fields)
    IN  \A index \in 1..Len(sorted_fields) : index = sorted_fields[index][1] - 1

\* is_sorted: every sorted position holds the field that was there before
is_sorted(self) ==
    LET sorted_fields == SortedFields(self.inner.fields)
    IN  \A index \in 1..Len(sorted_fields) : index = sorted_fields[index][1]

sort_fields_by_name(self) ==
    LET sorted_fields == SortedFields(self.inner.fields)
    IN  IF is_sorted(self) THEN Ok(self, FALSE)
        ELSE LET new_fields == [k \in 1..Len(sorted_fields) |-> sorted_fields[k][2]]
                 new_meta == self.inner.metadata
             IN  Ok([inner |-> ArrowSchema(new_fields, new_meta)], TRUE)

-----------------------------------------------------------------------------
(* SchemaIter *)

\* Schema::iter: SchemaIter { schema: self, idx: 0 }.  calls, items and last
\* record what next() was asked and what it answered.
iter(self) == [idx |-> 0, calls |-> 0, items |-> << >>, last |-> None]

\* A next() that stops one column early
SchemaIter_next_stops_early(it, self) ==
    IF it.idx + 1 < len(self)
    THEN LET ret == field(self, it.idx + 1)
         IN  [idx |-> it.idx + 1, calls |-> it.calls + 1,
              items |-> Append(it.items, ret), last |-> Some(ret)]
    ELSE [it EXCEPT !.calls = @ + 1, !.last = None]

\* Iterator::next for SchemaIter; column idx of the code is position idx + 1
SchemaIter_next(it, self) ==
    IF it.idx < len(self)
    THEN LET ret == field(self, it.idx + 1)
         IN  [idx |-> it.idx + 1, calls |-> it.calls + 1,
              items |-> Append(it.items, ret), last |-> Some(ret)]
    ELSE [it EXCEPT !.calls = @ + 1, !.last = None]

-----------------------------------------------------------------------------
(* The Arc behind a handle *)

\* strong: how many handles hold the allocation; value: what it holds
NoArc == [strong |-> 0, value |-> None]

\* Arc::new(inner) as it reaches a constructor: one handle
Arc_new(inner) == [strong |-> 1, value |-> Some(inner)]

\* Arc::clone: one more handle on the same allocation
Arc_clone(a) == [a EXCEPT !.strong = @ + 1]

\* drop of one handle; the last one frees the allocation
Arc_drop(a) ==
    IF a.strong = 1 THEN NoArc ELSE [a EXCEPT !.strong = @ - 1]

\* An unwrap that moves the value out of the allocation whoever holds it
unwrap_arc_always_moves(a) == [strong |-> a.strong - 1, value |-> None]

\* What unwrap_to_inner_owned does to the allocation: Arc::try_unwrap moves
\* the value out of a handle that is the only one, and otherwise the value
\* is cloned and the handle dropped.
unwrap_arc(a) ==
    IF a.strong = 1 THEN NoArc ELSE Arc_drop(a)

-----------------------------------------------------------------------------
(* Inputs *)

FieldLists(names, types, nullables, n) ==
    LET F == {ArrowField(nm, ty, nu) : nm \in names, ty \in types, nu \in nullables}
    IN  UNION {[1..k -> F] : k \in 0..n}

MetadataMaps(names, tokens, measurements) ==
    LET cols == UNION {[D -> tokens] : D \in SUBSET names}
        meas == {EmptyMap} \cup
                {[k \in {MEASUREMENT_METADATA_KEY} |-> m] : m \in measurements}
    IN  {c @@ m : c \in cols, m \in meas}

ArrowSchemas ==
    {ArrowSchema(f, m) :
        f \in FieldLists(ColumnNames, {"Utf8", "Int64"}, BOOLEAN, MaxCols),
        m \in MetadataMaps(ColumnNames, {to_string(Tag), to_string(Timestamp)},
                           MeasurementNames)}

\* Inputs of the construction checks: every data type and every role token,
\* and a foreign metadata value, on short column lists ...
TypedArrowSchemas ==
    {ArrowSchema(f, m) :
        f \in FieldLists(ColumnNames, ArrowDataType, {FALSE}, MaxCols),
        m \in MetadataMaps(ColumnNames,
                           {to_string(t) : t \in InfluxColumnType}
                               \cup {"something_other_than_iox"},
                           {"m1"})}

\* ... and longer column lists, where names repeat more than once
RepeatedArrowSchemas ==
    {ArrowSchema(f, m) :
        f \in FieldLists(ColumnNames, {"Utf8", "Int64"}, {FALSE}, MaxCols + 2),
        m \in MetadataMaps(ColumnNames, {to_string(Tag)}, {})}

Parts ==
    [measurement : {None, Some("m1")},
     fields : FieldLists(ColumnNames, {"Utf8", "Int64"}, BOOLEAN, MaxCols),
     tag_cols : SUBSET ColumnNames,
     field_cols : UNION {[D -> {Field("Integer"), Field("String")}] :
                            D \in SUBSET ColumnNames},
     time_col : {None} \cup {Some(n) : n \in ColumnNames}]

\* Every Schema the validated constructor accepts over the input alphabet
ValidSchemas ==
    {try_from_arrow(inner).value[1] :
        inner \in {a \in ArrowSchemas : try_from_arrow(a).ok}}

-----------------------------------------------------------------------------
(* Actions *)

Init ==
    /\ schema = None
    /\ op = "none"
    /\ receiver = None
    /\ argument = None
    /\ input = None
    /\ result = NoResult
    /\ iters = << >>
    /\ arc = NoArc

TryFromArrowOn(inputs) ==
    /\ op = "none"
    /\ schema = None
    /\ \E inner \in inputs :
        /\ input' = Some(inner)
        /\ result' = try_from_arrow(inner)
    /\ op' = "try_from_arrow"
    /\ UNCHANGED <<schema, receiver, argument, iters, arc>>

TryFromArrow == TryFromArrowOn(ArrowSchemas)

ValidateArrow == TryFromArrowOn(TypedArrowSchemas \cup RepeatedArrowSchemas)

NewFromParts ==
    /\ op = "none"
    /\ schema = None
    /\ \E p \in Parts :
        /\ input' = Some(p)
        /\ result' \in new_from_parts(p.measurement, p.fields, p.tag_cols,
                                      p.field_cols, p.time_col)
    /\ op' = "new_from_parts"
    /\ UNCHANGED <<schema, receiver, argument, iters, arc>>

\* self.try_merge(other): the owned schema is one side, a freshly validated
\* schema the other.
TryMerge ==
    /\ op = "none"
    /\ schema # None
    /\ \E fresh \in ValidSchemas, owned_is_self \in BOOLEAN :
        LET s == IF owned_is_self THEN schema[1] ELSE fresh
            o == IF owned_is_self THEN fresh ELSE schema[1]
        IN  /\ receiver' = Some(s)
            /\ argument' = Some(o)
            /\ result' = try_merge(s, o)
    /\ op' = "try_merge"
    /\ schema' = None
    /\ input' = None
    /\ UNCHANGED <<iters, arc>>

SortFieldsByName ==
    /\ op = "none"
    /\ schema # None
    /\ receiver' = schema
    /\ result' = sort_fields_by_name(schema[1])
    /\ op' = "sort_fields_by_name"
    /\ schema' = None
    /\ UNCHANGED <<argument, input, iters, arc>>

TakeResult ==
    /\ op # "none"
    /\ schema' = result.value
    /\ op' = "none"
    /\ receiver' = None
    /\ argument' = None
    /\ input' = None
    /\ result' = NoResult
    /\ UNCHANGED <<iters, arc>>

Next ==
    \/ TryFromArrow
    \/ TryMerge
    \/ SortFieldsByName
    \/ TakeResult

Spec == Init /\ [][Next]_vars

\* Schema::try_from(ArrowSchemaRef::from(schema)): the owned schema is
\* converted to the handle it wraps and validated again.
RoundTrip ==
    /\ op = "none"
    /\ schema # None
    /\ receiver' = schema
    /\ input' = Some(into_arrow(schema[1]))
    /\ result' = try_from_arrow(into_arrow(schema[1]))
    /\ op' = "try_from_arrow"
    /\ schema' = None
    /\ UNCHANGED <<argument, iters, arc>>

\* Construction and conversion alone, over the wider inputs
NextConstruct ==
    \/ ValidateArrow
    \/ NewFromParts
    \/ TakeResult
    \/ RoundTrip

SpecConstruct == Init /\ [][NextConstruct]_vars

\* schema.iter()
Iter ==
    /\ op = "none"
    /\ schema # None
    /\ Len(iters) < MaxIters
    /\ iters' = Append(iters, iter(schema[1]))
    /\ UNCHANGED <<schema, op, receiver, argument, input, result, arc>>

\* next() on one of the iterators
IterNext ==
    /\ op = "none"
    /\ schema # None
    /\ \E k \in DOMAIN iters :
        /\ iters[k].calls < len(schema[1]) + MaxExtraNext
        /\ iters' = [iters EXCEPT ![k] = SchemaIter_next(@, schema[1])]
    /\ UNCHANGED <<schema, op, receiver, argument, input, result, arc>>

\* Iteration over a constructed schema
NextIter ==
    \/ TryFromArrow
    \/ TakeResult
    \/ Iter
    \/ IterNext

SpecIter == Init /\ [][NextIter]_vars

\* Schemas of the runs with shared handles: no nullable column
SharedSchemas ==
    {s \in ValidSchemas : \A i \in 1..len(s) : ~s.inner.fields[i].nullable}

\* Schema::try_from(Arc::new(inner)): the new schema holds the only handle
TryFromArrowOwned ==
    /\ op = "none"
    /\ schema = None
    /\ \E s \in SharedSchemas :
        /\ input' = Some(s.inner)
        /\ result' = try_from_arrow(s.inner)
        /\ arc' = Arc_new(s.inner)
    /\ op' = "try_from_arrow"
    /\ UNCHANGED <<schema, receiver, argument, iters>>

TakeConstructed ==
    /\ op = "try_from_arrow"
    /\ TakeResult

\* schema.clone(), the clone kept by somebody else
Clone ==
    /\ op = "none"
    /\ schema # None
    /\ arc.strong < 1 + MaxClones
    /\ arc' = Arc_clone(arc)
    /\ UNCHANGED <<schema, op, receiver, argument, input, result, iters>>

\* What try_merge does to the allocation a, held by self (a_is_self) or by
\* other: a pre-check error drops both operands, the structural merge
\* unwraps both, and the fast path returns self and drops other.
try_merge_arc(self, other, a, a_is_self) ==
    LET failing == {i \in SharedColumns(self, other) :
                       ColumnCheck(self, other, i) # None}
    IN  IF MeasurementCheck(self, other) # None \/ failing # {} THEN Arc_drop(a)
        ELSE IF need_merge(self, other) THEN unwrap_arc(a)
        ELSE IF a_is_self THEN a
        ELSE Arc_drop(a)

\* What sort_fields_by_name does to the allocation of self: the fast path
\* returns self, and otherwise self is dropped once the new schema is built.
sort_fields_by_name_arc(self, a) ==
    IF is_sorted(self) THEN a ELSE Arc_drop(a)

\* try_merge with the owned schema, whose handle may be shared, on one side
TryMergeShared ==
    /\ op = "none"
    /\ schema # None
    /\ \E fresh \in SharedSchemas, owned_is_self \in BOOLEAN :
        LET s == IF owned_is_self THEN schema[1] ELSE fresh
            o == IF owned_is_self THEN fresh ELSE schema[1]
        IN  /\ receiver' = Some(s)
            /\ argument' = Some(o)
            /\ result' = try_merge(s, o)
            /\ arc' = try_merge_arc(s, o, arc, owned_is_self)
    /\ op' = "try_merge"
    /\ schema' = None
    /\ input' = None
    /\ UNCHANGED iters

SortShared ==
    /\ op = "none"
    /\ schema # None
    /\ receiver' = schema
    /\ result' = sort_fields_by_name(schema[1])
    /\ arc' = sort_fields_by_name_arc(schema[1], arc)
    /\ op' = "sort_fields_by_name"
    /\ schema' = None
    /\ UNCHANGED <<argument, input, iters>>

\* One call on a schema whose handle other schemas hold too
NextShared ==
    \/ TryFromArrowOwned
    \/ TakeConstructed
    \/ Clone
    \/ TryMergeShared
    \/ SortShared

SpecShared == Init /\ [][NextShared]_vars

-----------------------------------------------------------------------------
(* Vocabulary of the properties *)

\* The Schema values alive in a state: the one the caller owns and the one a
\* pending call has just returned.
LiveSchemas ==
    {schema[i] : i \in DOMAIN schema} \cup {result.value[i] : i \in DOMAIN result.value}

Merging == op = "try_merge"

\* <<name, role, physical type, nullability>> of column i
ColumnDef(s, i) ==
    LET col == field(s, i)
    IN  <<col[2].name, col[1], col[2].data_type, col[2].nullable>>

ColumnDefs(s) == [i \in 1..len(s) |-> ColumnDef(s, i)]

ColumnNamesOf(s) == {s.inner.fields[i].name : i \in 1..len(s)}

HasColumn(s, name) == name \in ColumnNamesOf(s)

UniqueNames(s) ==
    \A i, j \in 1..len(s) :
        s.inner.fields[i].name = s.inner.fields[j].name => i = j

RoleTypeCompatible(s) ==
    \A i \in 1..len(s) :
        LET col == field(s, i)
        IN  col[1] # None => col[2].data_type = ColumnTypeToArrow(col[1][1])

TimestampColumns(s) == {i \in 1..len(s) : field(s, i)[1] = Some(Timestamp)}

\* The column of s named name (names are unique in the schemas merged here)
ColumnNamed(s, name) ==
    ColumnDef(s, CHOOSE i \in 1..len(s) : s.inner.fields[i].name = name)

\* Both sides name a measurement and the names differ
MeasurementsDiffer(s, o) ==
    /\ MEASUREMENT_METADATA_KEY \in DOMAIN s.inner.metadata
    /\ MEASUREMENT_METADATA_KEY \in DOMAIN o.inner.metadata
    /\ s.inner.metadata[MEASUREMENT_METADATA_KEY]
           # o.inner.metadata[MEASUREMENT_METADATA_KEY]

\* Positions of other whose column self has under a different definition
ConflictingColumns(s, o) ==
    {i \in 1..len(o) :
        /\ HasColumn(s, o.inner.fields[i].name)
        /\ ColumnNamed(s, o.inner.fields[i].name) # ColumnDef(o, i)}

\* Positions of other whose column self lacks
NewColumns(s, o) ==
    {i \in 1..len(o) : ~HasColumn(s, o.inner.fields[i].name)}

\* The collaborator's structural merge ran: it built the result or it failed
StructuralMergeInvoked ==
    /\ Merging
    /\ \/ result.ok /\ result.rebuilt
       \/ ~result.ok /\ result.err[1].kind = "MergingSchemas"

ReturnsSelf ==
    /\ result.ok
    /\ ~result.rebuilt
    /\ result.value = receiver

-----------------------------------------------------------------------------
(* C1 *)

\* C1: in every Schema reached by validated construction followed by
\* successful try_merge and sort_fields_by_name calls, each column whose
\* metadata entry decodes to a role has that role's canonical physical type.
C1_RoleTypeInvariant == \A s \in LiveSchemas : RoleTypeCompatible(s)

-----------------------------------------------------------------------------
(* C2 *)

\* C2: in every Schema reached by validated construction followed by
\* successful try_merge and sort_fields_by_name calls, no two columns have
\* the same name.
C2_UniqueColumnNames == \A s \in LiveSchemas : UniqueNames(s)

\* A structural merge of two schemas that share a column returned a schema
\* of two columns.
C2_Witness ==
    /\ Merging
    /\ result.ok
    /\ result.rebuilt
    /\ ColumnNamesOf(receiver[1]) \cap ColumnNamesOf(argument[1]) # {}
    /\ len(argument[1]) = 2
    /\ len(result.value[1]) = 2

-----------------------------------------------------------------------------
(* C3 *)

\* C3: every Schema that construction accepts or try_merge returns declares
\* at most one Timestamp column, and every column has at most one role.
C3_ExclusiveRoles ==
    \A s \in LiveSchemas :
        /\ Cardinality(TimestampColumns(s)) <= 1
        /\ \A i \in 1..len(s) : Len(field(s, i)[1]) <= 1

-----------------------------------------------------------------------------
(* C4 *)

C4_Identity ==
    (Merging /\ receiver = argument) => ReturnsSelf

C4_FastPath ==
    (/\ Merging
     /\ measurement(receiver[1]) = measurement(argument[1])
     /\ \A i \in 1..len(argument[1]) :
            /\ HasColumn(receiver[1], argument[1].inner.fields[i].name)
            /\ ColumnNamed(receiver[1], argument[1].inner.fields[i].name)
                   = ColumnDef(argument[1], i))
    => ReturnsSelf

C4_NeedsStructuralMerge ==
    \/ NewColumns(receiver[1], argument[1]) # {}
    \/ (measurement(receiver[1]) = None) # (measurement(argument[1]) = None)

\* C4 as stated: merging S with S returns S; equal measurement and every
\* column of other present in self with the same definition returns self
\* itself; and the structural merge is invoked if and only if other has a
\* column absent from self or exactly one side has a measurement.
C4_AsStated ==
    /\ C4_Identity
    /\ C4_FastPath
    /\ Merging => (StructuralMergeInvoked <=> C4_NeedsStructuralMerge)

\* C4 amended: the equivalence holds of the calls whose pre-checks pass (no
\* differing measurement names, no shared column with a different
\* definition); a call that fails a pre-check never invokes the structural
\* merge.
C4_FastPathAmended ==
    /\ C4_Identity
    /\ C4_FastPath
    /\ Merging =>
        IF \/ MeasurementsDiffer(receiver[1], argument[1])
           \/ ConflictingColumns(receiver[1], argument[1]) # {}
        THEN ~StructuralMergeInvoked
        ELSE /\ StructuralMergeInvoked <=> C4_NeedsStructuralMerge
             /\ ~StructuralMergeInvoked => ReturnsSelf

\* The fast path was taken for an argument with fewer columns than self
C4_Witness ==
    /\ Merging
    /\ ReturnsSelf
    /\ len(argument[1]) = 1
    /\ len(receiver[1]) = 2
    /\ measurement(receiver[1]) # None

-----------------------------------------------------------------------------
(* C5 *)

\* C5: a successful try_merge returns the columns of self in self's order,
\* then the columns of other that self lacks in other's order, each with the
\* role, physical type and nullability it had in its source schema; the
\* measurement is that of whichever input has one.
C5_MergeContent ==
    (Merging /\ result.ok) =>
        LET s == receiver[1]
            o == argument[1]
            added == SelectSeq(ColumnDefs(o), LAMBDA d : ~HasColumn(s, d[1]))
        IN  /\ ColumnDefs(result.value[1]) = ColumnDefs(s) \o added
            /\ measurement(result.value[1]) =
                   IF measurement(s) # None THEN measurement(s) ELSE measurement(o)

-----------------------------------------------------------------------------
(* C6 *)

\* The set of column definitions of a returned schema
ResultColumns(r) == {ColumnDef(r.value[1], i) : i \in 1..len(r.value[1])}

\* C6: two valid schemas that share columns, all with identical definitions
\* (and do not name different measurements), merge in either argument order
\* into the same set of column definitions and the same measurement: stated
\* here of the pairs that merge successfully in both orders.
C6_OrderIndependent ==
    (/\ Merging
     /\ \A s \in {receiver[1], argument[1]} : UniqueNames(s) /\ RoleTypeCompatible(s)
     /\ ColumnNamesOf(receiver[1]) \cap ColumnNamesOf(argument[1]) # {}
     /\ ConflictingColumns(receiver[1], argument[1]) = {}
     /\ ~MeasurementsDiffer(receiver[1], argument[1])
     /\ result.ok
     /\ try_merge(argument[1], receiver[1]).ok)
    => LET swapped == try_merge(argument[1], receiver[1])
       IN  /\ ResultColumns(result) = ResultColumns(swapped)
           /\ measurement(result.value[1]) = measurement(swapped.value[1])

-----------------------------------------------------------------------------
(* C7 *)

\* C7: once the measurement names are compatible, try_merge fails exactly
\* when a column of other exists in self under a different definition.  The
\* error is for the first such column in other's order, whatever new columns
\* precede it; it is TryMergeBadColumnType if the roles differ, else
\* TryMergeBadArrowType if the physical types differ, else
\* TryMergeBadNullability, and carries the column name, self's value and
\* other's value.
C7_PerColumnConflicts ==
    (Merging /\ ~MeasurementsDiffer(receiver[1], argument[1])) =>
        LET s == receiver[1]
            o == argument[1]
            conflicts == ConflictingColumns(s, o)
        IN  IF conflicts = {}
            THEN result.ok \/ result.err[1].kind = "MergingSchemas"
            ELSE LET new == ColumnDef(o, Min(conflicts))
                     existing == ColumnNamed(s, new[1])
                     e == result.err[1]
                 IN  /\ ~result.ok
                     /\ e.name = new[1]
                     /\ IF existing[2] # new[2]
                        THEN /\ e.kind = "TryMergeBadColumnType"
                             /\ e.existing = Some(existing[2])
                             /\ e.new = Some(new[2])
                        ELSE IF existing[3] # new[3]
                        THEN /\ e.kind = "TryMergeBadArrowType"
                             /\ e.existing = Some(existing[3])
                             /\ e.new = Some(new[3])
                        ELSE /\ e.kind = "TryMergeBadNullability"
                             /\ e.existing = Some(existing[4])
                             /\ e.new = Some(new[4])

\* Both columns of other conflict; other lists them in the opposite order to
\* self, its first differs only in nullability and its second in role.
C7_Witness ==
    /\ Merging
    /\ ~MeasurementsDiffer(receiver[1], argument[1])
    /\ ConflictingColumns(receiver[1], argument[1]) = {1, 2}
    /\ receiver[1].inner.fields[1].name = argument[1].inner.fields[2].name
    /\ ColumnNamed(receiver[1], argument[1].inner.fields[2].name)[2]
           # ColumnDef(argument[1], 2)[2]
    /\ result.err[1].kind = "TryMergeBadNullability"

-----------------------------------------------------------------------------
(* C8 *)

\* C8: when both sides name a measurement and the names differ, try_merge
\* fails with TryMergeDifferentMeasurementNames carrying self's name as
\* existing and other's as new, whatever column conflicts there are; when at
\* most one side names a measurement that error does not occur.
C8_MeasurementMismatchFirst ==
    Merging =>
        IF MeasurementsDiffer(receiver[1], argument[1])
        THEN /\ ~result.ok
             /\ result.err[1].kind = "TryMergeDifferentMeasurementNames"
             /\ result.err[1].existing = measurement(receiver[1])
             /\ result.err[1].new = measurement(argument[1])
        ELSE result.ok \/ result.err[1].kind # "TryMergeDifferentMeasurementNames"

\* The measurement names differ and a shared column conflicts as well
C8_Witness ==
    /\ Merging
    /\ MeasurementsDiffer(receiver[1], argument[1])
    /\ ConflictingColumns(receiver[1], argument[1]) # {}
    /\ ~result.ok

-----------------------------------------------------------------------------
(* C9 *)

\* Positions of a column list whose name occurs at an earlier position
Repeats(fields) ==
    {i \in 1..Len(fields) : \E j \in 1..Len(fields) :
        j < i /\ fields[j].name = fields[i].name}

\* Positions whose metadata entry decodes to a role of another physical type
Offending(inner) ==
    {i \in 1..Len(inner.fields) :
        LET entry == MetadataGet(inner.metadata, inner.fields[i].name)
        IN  /\ entry # None
            /\ try_from_str(entry[1]) # None
            /\ inner.fields[i].data_type #
                   (CASE try_from_str(entry[1])[1] = Tag -> "Utf8"
                      [] try_from_str(entry[1])[1] = Timestamp -> "Int64"
                      [] try_from_str(entry[1])[1] = Field("Float") -> "Float64"
                      [] try_from_str(entry[1])[1] = Field("Integer") -> "Int64"
                      [] try_from_str(entry[1])[1] = Field("UInteger") -> "UInt64"
                      [] try_from_str(entry[1])[1] = Field("String") -> "Utf8"
                      [] try_from_str(entry[1])[1] = Field("Boolean") -> "Boolean")}

\* C9: try_from_arrow on a column list with a repeated name fails with
\* DuplicateColumnName naming the first column, in positional order, whose
\* name occurred earlier, also when a role is incompatible with its column.
C9_DuplicateDetection ==
    (op = "try_from_arrow" /\ Repeats(input[1].fields) # {}) =>
        /\ ~result.ok
        /\ result.err[1].kind = "DuplicateColumnName"
        /\ result.err[1].name =
               input[1].fields[Min(Repeats(input[1].fields))].name

\* Two names repeat, the first repeat is not the name the list starts with,
\* and a column before it carries an incompatible role.
C9_Witness ==
    /\ op = "try_from_arrow"
    /\ Cardinality({input[1].fields[i].name : i \in Repeats(input[1].fields)}) = 2
    /\ input[1].fields[Min(Repeats(input[1].fields))].name # input[1].fields[1].name
    /\ \E i \in Offending(input[1]) : i < Min(Repeats(input[1].fields))
    /\ result.err[1].kind = "DuplicateColumnName"

-----------------------------------------------------------------------------
(* C10 *)

\* C10: try_from_arrow succeeds if and only if the names are unique and
\* every column whose metadata entry decodes to a role has the role's
\* canonical physical type; with unique names it otherwise fails with
\* IncompatibleMetadata naming the first offending column, its declared role
\* and its actual physical type.
C10_TypeCompatibility ==
    op = "try_from_arrow" =>
        LET inner == input[1]
            offending == Offending(inner)
        IN  /\ result.ok <=> (Repeats(inner.fields) = {} /\ offending = {})
            /\ result.ok => result.value = Some([inner |-> inner])
            /\ (Repeats(inner.fields) = {} /\ offending # {}) =>
                   LET f == inner.fields[Min(offending)]
                   IN  /\ result.err[1].kind = "IncompatibleMetadata"
                       /\ result.err[1].name = f.name
                       /\ result.err[1].existing =
                              try_from_str(inner.metadata[f.name])
                       /\ result.err[1].new = Some(f.data_type)

\* Both columns of the input are offending: an unsigned field stored as
\* Int64 comes second.
C10_Witness ==
    /\ op = "try_from_arrow"
    /\ Repeats(input[1].fields) = {}
    /\ Offending(input[1]) = {1, 2}
    /\ input[1].fields[2].data_type = "Int64"
    /\ input[1].metadata[input[1].fields[2].name] = to_string(Field("UInteger"))
    /\ ~result.ok

-----------------------------------------------------------------------------
(* C11 *)

\* The seven tokens a role is written as
RoleTokens ==
    {"iox::column_type::tag", "iox::column_type::timestamp",
     "iox::column_type::field::float", "iox::column_type::field::integer",
     "iox::column_type::field::uinteger", "iox::column_type::field::string",
     "iox::column_type::field::boolean"}

\* Positions whose metadata entry is not a role token
ForeignValued(inner) ==
    {i \in 1..Len(inner.fields) :
        /\ inner.fields[i].name \in DOMAIN inner.metadata
        /\ inner.metadata[inner.fields[i].name] \notin RoleTokens}

\* Metadata keys that name no column and are not the measurement key
StrayKeys(inner) ==
    {k \in DOMAIN inner.metadata :
        /\ k # MEASUREMENT_METADATA_KEY
        /\ \A i \in 1..Len(inner.fields) : inner.fields[i].name # k}

\* The input without its foreign values and its stray keys
WithoutForeign(inner) ==
    LET foreign == {inner.fields[i].name : i \in ForeignValued(inner)}
        kept == DOMAIN inner.metadata \ (foreign \cup StrayKeys(inner))
    IN  ArrowSchema(inner.fields, [k \in kept |-> inner.metadata[k]])

\* C11: a metadata value that is not a role token decodes to no role, and a
\* key that names no column is ignored: try_from_arrow never fails because
\* of such an entry, whatever the physical type of the column (it fails
\* exactly when it fails without those entries, and then names a repeated
\* column or a column whose entry is a role token), and on success the
\* entries are still in the metadata map of the schema.
C11_ForeignMetadataTolerated ==
    op = "try_from_arrow" =>
        LET inner == input[1]
        IN  /\ result.ok <=> try_from_arrow(WithoutForeign(inner)).ok
            /\ ~result.ok =>
                   \E i \in 1..Len(inner.fields) :
                       /\ inner.fields[i].name = result.err[1].name
                       /\ \/ i \in Repeats(inner.fields)
                          \/ /\ result.err[1].kind = "IncompatibleMetadata"
                             /\ i \notin ForeignValued(inner)
                             /\ inner.fields[i].name \in DOMAIN inner.metadata
            /\ result.ok =>
                   /\ result.value[1].inner.metadata = inner.metadata
                   /\ \A i \in ForeignValued(inner) :
                          field(result.value[1], i)[1] = None

\* A schema is built from one Float32 column whose entry is a foreign value,
\* with a measurement and a second entry, a role token under a name that is
\* no column.
C11_Witness ==
    /\ op = "try_from_arrow"
    /\ result.ok
    /\ Len(input[1].fields) = 1
    /\ input[1].fields[1].data_type = "Float32"
    /\ ForeignValued(input[1]) = {1}
    /\ \E k \in StrayKeys(input[1]) : input[1].metadata[k] \in RoleTokens
    /\ field(result.value[1], 1)[1] = None
    /\ measurement(result.value[1]) = Some("m1")

-----------------------------------------------------------------------------
(* C12 *)

\* The role new_from_parts is given for a column name
GivenRole(p, name) ==
    IF name \in p.tag_cols THEN Some(Tag)
    ELSE IF name \in DOMAIN p.field_cols THEN Some(p.field_cols[name])
    ELSE IF p.time_col = Some(name) THEN Some(Timestamp)
    ELSE None

\* C12: every role is written as a token of its own that decodes back to
\* the role; a schema built from parts has the columns it was given, in
\* their order, each decoding to the role it was given, and the measurement
\* it was given; and converting a constructed schema to the handle it wraps
\* and validating that handle again succeeds with a schema equal to the
\* first in roles, types, nullability, measurement and column order.
C12_RoundTrip ==
    /\ \A t \in InfluxColumnType : try_from_str(to_string(t)) = Some(t)
    /\ \A t, u \in InfluxColumnType : to_string(t) = to_string(u) => t = u
    /\ (op = "new_from_parts" /\ result.ok) =>
           LET p == input[1]
               s == result.value[1]
           IN  /\ len(s) = Len(p.fields)
               /\ measurement(s) = p.measurement
               /\ \A i \in 1..len(s) :
                      field(s, i) = <<GivenRole(p, p.fields[i].name), p.fields[i]>>
    /\ (op = "try_from_arrow" /\ receiver # None) =>
           /\ result.ok
           /\ result.value = receiver
           /\ len(result.value[1]) = len(receiver[1])
           /\ measurement(result.value[1]) = measurement(receiver[1])
           /\ \A i \in 1..len(receiver[1]) :
                  field(result.value[1], i) = field(receiver[1], i)

\* A schema with a measurement, a nullable string field and a timestamp,
\* in this order and against the order of the names, has gone round.
C12_Witness ==
    /\ op = "try_from_arrow"
    /\ receiver # None
    /\ result.ok
    /\ len(receiver[1]) = 2
    /\ measurement(result.value[1]) = Some("m1")
    /\ field(result.value[1], 1) =
           <<Some(Field("String")), ArrowField("b", "Utf8", TRUE)>>
    /\ field(result.value[1], 2) =
           <<Some(Timestamp), ArrowField("a", "Int64", FALSE)>>

-----------------------------------------------------------------------------
(* C13 *)

Sorting == op = "sort_fields_by_name"

\* How many columns of s have the definition d
Occurrences(s, d) == Cardinality({i \in 1..len(s) : ColumnDef(s, i) = d})

\* C13: sort_fields_by_name succeeds with a schema whose columns are in
\* ascending order of their names and are a permutation of the columns of
\* its input (as many columns, each with the physical type, nullability and
\* decoded role it had), with the measurement and the whole metadata map
\* of the input.
C13_SortIsPermutation ==
    Sorting =>
        /\ result.ok
        /\ LET s == receiver[1]
               r == result.value[1]
           IN  /\ \A i, j \in 1..len(r) :
                      i < j => ~NameLess(r.inner.fields[j].name,
                                         r.inner.fields[i].name)
               /\ len(r) = len(s)
               /\ \A i \in 1..len(s) :
                      Occurrences(r, ColumnDef(s, i)) = Occurrences(s, ColumnDef(s, i))
               /\ measurement(r) = measurement(s)
               /\ r.inner.metadata = s.inner.metadata

\* A tag column b before a nullable timestamp column a, with a measurement,
\* is rebuilt in the order a, b.
C13_Witness ==
    /\ Sorting
    /\ result.rebuilt
    /\ ColumnDefs(receiver[1]) =
           << <<"b", Some(Tag), "Utf8", FALSE>>,
              <<"a", Some(Timestamp), "Int64", TRUE>> >>
    /\ ColumnDefs(result.value[1]) =
           << <<"a", Some(Timestamp), "Int64", TRUE>>,
              <<"b", Some(Tag), "Utf8", FALSE>> >>
    /\ measurement(result.value[1]) = Some("m2")

-----------------------------------------------------------------------------
(* C14 *)

\* C14: an iterator yields the columns of its schema in order, the i-th
\* item being field(i), yields exactly len() items, and answers None to
\* every call after the last item; every iterator starts at the first
\* column and advances on its own calls only, wherever the other iterators
\* over the same schema stand.
C14_IterationConsistency ==
    \A k \in DOMAIN iters :
        LET it == iters[k]
            s == schema[1]
            yielded == IF it.calls < len(s) THEN it.calls ELSE len(s)
        IN  /\ Len(it.items) = yielded
            /\ \A i \in 1..yielded : it.items[i] = field(s, i)
            /\ it.calls \in 1..len(s) => it.last = Some(field(s, it.calls))
            /\ it.calls > len(s) => it.last = None

\* Two iterators over a schema of two columns: the first has been called
\* twice past the end, the second has yielded the first column only.
C14_Witness ==
    /\ schema # None
    /\ len(schema[1]) = 2
    /\ Len(iters) = 2
    /\ iters[1].calls = 4
    /\ Len(iters[1].items) = 2
    /\ iters[1].last = None
    /\ iters[2].calls = 1
    /\ iters[2].items = <<field(schema[1], 1)>>

-----------------------------------------------------------------------------
(* C15 *)

\* C15: while other schemas hold the handle of a schema, a try_merge or a
\* sort_fields_by_name that consumes the schema, whether it succeeds or
\* fails, gives up at most its own handle and leaves what the shared
\* allocation holds as it was.
C15_NoWriteThrough ==
    [][(/\ op = "none"
        /\ op' \in {"try_merge", "sort_fields_by_name"}
        /\ arc.strong >= 2) =>
            /\ arc'.strong >= arc.strong - 1
            /\ arc'.value = arc.value
            /\ arc'.value = Some(schema[1].inner)]_vars

\* A merge has built a new schema from a receiver whose handle two other
\* schemas still hold, and they still see the columns of the receiver.
C15_Witness ==
    /\ op = "try_merge"
    /\ result.ok
    /\ result.rebuilt
    /\ arc.strong = 2
    /\ arc.value = Some(receiver[1].inner)
    /\ len(result.value[1]) > len(receiver[1])

-----------------------------------------------------------------------------
(* C16 *)

\* C16: new_from_parts fails with BothFieldAndTag naming such a column if a
\* name is both in the tag set and in the field map; otherwise with
\* InvalidTimestamp naming the timestamp column and the role already given
\* to it if that name is in the tag set or the field map; otherwise its
\* outcome is the outcome of try_from_arrow on the given columns with a
\* metadata map that holds the token of the given role under every name of
\* the tag set, of the field map and of the timestamp column, and the
\* measurement, if given, under the measurement key.
C16_NewFromParts ==
    op = "new_from_parts" =>
        LET p == input[1]
            both == p.tag_cols \cap DOMAIN p.field_cols
            named == p.tag_cols \cup DOMAIN p.field_cols
                         \cup {p.time_col[i] : i \in DOMAIN p.time_col}
            keys == named \cup
                    {MEASUREMENT_METADATA_KEY : i \in DOMAIN p.measurement}
            expected == [k \in keys |->
                            IF k \in named THEN to_string(GivenRole(p, k)[1])
                            ELSE p.measurement[1]]
        IN  IF both # {}
            THEN /\ ~result.ok
                 /\ result.err[1].kind = "BothFieldAndTag"
                 /\ result.err[1].name \in both
            ELSE IF p.time_col # None /\
                    p.time_col[1] \in p.tag_cols \cup DOMAIN p.field_cols
            THEN /\ ~result.ok
                 /\ result.err[1].kind = "InvalidTimestamp"
                 /\ result.err[1].name = p.time_col[1]
                 /\ result.err[1].existing = GivenRole(p, p.time_col[1])
            ELSE result = try_from_arrow(ArrowSchema(p.fields, expected))

\* The timestamp name is a tag and a field at once, and so is a second name.
C16_Witness ==
    /\ op = "new_from_parts"
    /\ input[1].tag_cols = {"a", "b"}
    /\ DOMAIN input[1].field_cols = {"a", "b"}
    /\ input[1].time_col = Some("a")
    /\ result.err[1].kind = "BothFieldAndTag"
    /\ result.err[1].name = "b"

-----------------------------------------------------------------------------
(* C17 *)

\* The column names of s never go down from one position to the next
NamesAscending(s) ==
    \A i \in 1..(len(s) - 1) :
        ~NameLess(s.inner.fields[i + 1].name, s.inner.fields[i].name)

\* C17: sort_fields_by_name returns its input itself, building nothing, if
\* and only if the column names are already in ascending order, which is
\* exactly when its check of the sorted positions holds; otherwise it
\* builds a new schema; and sorting its result again returns that result
\* itself.
C17_SortFastPath ==
    Sorting =>
        /\ ReturnsSelf <=> NamesAscending(receiver[1])
        /\ is_sorted(receiver[1]) <=> NamesAscending(receiver[1])
        /\ ~NamesAscending(receiver[1]) =>
               (result.ok /\ result.rebuilt /\ result.value # receiver)
        /\ sort_fields_by_name(result.value[1]) = Ok(result.value[1], FALSE)

\* A schema with columns a, b in this order comes back as it is.
C17_Witness ==
    /\ Sorting
    /\ len(receiver[1]) = 2
    /\ NamesAscending(receiver[1])
    /\ ReturnsSelf

-----------------------------------------------------------------------------
(* C18 *)

\* Both operands of the pending merge are valid schemas
ValidOperands ==
    \A s \in {receiver[1], argument[1]} : UniqueNames(s) /\ RoleTypeCompatible(s)

\* C18: whenever try_merge of two valid schemas takes the fast path and
\* returns self, the structural merge of the same two schemas succeeds too
\* and its result is the handle of self: the same columns and the same
\* metadata map.
C18_FastPathEquivalent ==
    (Merging /\ ValidOperands /\ ReturnsSelf) =>
        LET new_schema == ArrowSchema_try_merge(unwrap_to_inner_owned(receiver[1]),
                                                unwrap_to_inner_owned(argument[1]))
        IN  /\ new_schema.ok
            /\ new_schema.value = Some(receiver[1].inner)

-----------------------------------------------------------------------------
(* C19 *)

\* C19: for two valid schemas, try_merge in one argument order fails if and
\* only if try_merge in the other order fails.
C19_SuccessSymmetric ==
    (Merging /\ ValidOperands) =>
        (result.ok <=> try_merge(argument[1], receiver[1]).ok)

-----------------------------------------------------------------------------
(* C20 *)

ColumnErrorKinds ==
    {"TryMergeBadColumnType", "TryMergeBadArrowType", "TryMergeBadNullability"}

\* How the value an error of the given kind is about is written in a message
Shown(kind, col) ==
    CASE kind = "TryMergeBadColumnType" -> DebugColumnType(col[1])
      [] kind = "TryMergeBadArrowType" -> DebugDataType(col[2].data_type)
      [] kind = "TryMergeBadNullability" -> nullable_to_str(col[2].nullable)

\* The value an error of the given kind carries for a column
Carried(kind, col) ==
    CASE kind = "TryMergeBadColumnType" -> Some(col[1])
      [] kind = "TryMergeBadArrowType" -> Some(col[2].data_type)
      [] kind = "TryMergeBadNullability" -> Some(col[2].nullable)

\* C20: in a TryMergeBadColumnType, TryMergeBadArrowType or
\* TryMergeBadNullability error of try_merge, the existing value is the
\* value of the column in self and the new value is the value of the column
\* in other, in the fields of the error and in its message, where the piece
\* after "Existing" shows the value of self and the piece after "new" shows
\* the value of other.
C20_ConsistentLabels ==
    (/\ Merging
     /\ ValidOperands
     /\ ~result.ok
     /\ result.err[1].kind \in ColumnErrorKinds) =>
        LET e == result.err[1]
            in_self == field(receiver[1], find_index_of(receiver[1], e.name)[1])
            in_other == field(argument[1], find_index_of(argument[1], e.name)[1])
            message == Display(e)
        IN  /\ e.existing = Carried(e.kind, in_self)
            /\ e.new = Carried(e.kind, in_other)
            /\ message[2] = e.name
            /\ message[4] = Shown(e.kind, in_self)
            /\ message[6] = Shown(e.kind, in_other)

====
